---- MODULE Spec2Model ----
(***************************************************************************)
(* Model of parser_zoomagia.py: the ZoomagiaParser scraper (link           *)
(* discovery, field extractors, product assembly, persistence, the run     *)
(* orchestrator) and the weekly scheduling loop of main.                   *)
(*                                                                         *)
(* Python str values are sequences of one-character strings.  A parsed     *)
(* document (BeautifulSoup) is a sequence of nodes in document order, each *)
(* naming its parent by index (0: the document itself), together with the  *)
(* set of nodes that were removed from the tree (Tag.decompose).           *)
(***************************************************************************)
EXTENDS Integers, Sequences, FiniteSets, TLC

----------------------------------------------------------------------------
(* Characters.  The two non-ASCII characters of the source are written     *)
(* with ASCII stand-ins: DASH is U+2013 (line 100), RUB is U+20BD (150).   *)
SP == " "
NL == "\n"
DASH == "-"
RUB == "R"
COMMA == ","

\* Python's None, and a missing HTML attribute (Tag.get returns None)
None == <<"#None">>
NoAttr == <<"#NoAttr">>

IsSpace(c) == c \in {SP, NL}

\* str.lstrip / str.rstrip / str.strip
RECURSIVE lstrip(_)
lstrip(s) == IF s # <<>> /\ IsSpace(Head(s)) THEN lstrip(Tail(s)) ELSE s

RECURSIVE rstrip(_)
rstrip(s) ==
    IF s # <<>> /\ IsSpace(s[Len(s)]) THEN rstrip(SubSeq(s, 1, Len(s) - 1)) ELSE s

strip(s) == rstrip(lstrip(s))

\* str.startswith
startswith(s, p) == Len(s) >= Len(p) /\ SubSeq(s, 1, Len(p)) = p

\* str.find from position i (1-based); 0 when sub does not occur
RECURSIVE find(_, _, _)
find(s, sub, i) ==
    IF i + Len(sub) - 1 > Len(s) THEN 0
    ELSE IF SubSeq(s, i, i + Len(sub) - 1) = sub THEN i
    ELSE find(s, sub, i + 1)

\* sub in s
contains(s, sub) == find(s, sub, 1) # 0

\* s.replace(old, ''): every non-overlapping occurrence, left to right
RECURSIVE remove(_, _)
remove(s, old) ==
    IF old = <<>> THEN s
    ELSE LET k == find(s, old, 1)
         IN  IF k = 0 THEN s
             ELSE SubSeq(s, 1, k - 1) \o remove(SubSeq(s, k + Len(old), Len(s)), old)

\* s.split(sep)
RECURSIVE split(_, _)
split(s, sep) ==
    LET k == find(s, sep, 1)
    IN  IF k = 0 THEN <<s>>
        ELSE <<SubSeq(s, 1, k - 1)>> \o split(SubSeq(s, k + Len(sep), Len(s)), sep)

\* sep.join(parts)
RECURSIVE join(_, _)
join(parts, sep) ==
    IF parts = <<>> THEN <<>>
    ELSE IF Len(parts) = 1 THEN parts[1]
    ELSE parts[1] \o sep \o join(Tail(parts), sep)

\* [strip(p) for p in parts]
RECURSIVE stripAll(_)
stripAll(parts) ==
    IF parts = <<>> THEN <<>> ELSE <<strip(Head(parts))>> \o stripAll(Tail(parts))

\* [p for p in parts if p]
RECURSIVE nonEmpty(_)
nonEmpty(parts) ==
    IF parts = <<>> THEN <<>>
    ELSE IF Head(parts) # <<>> THEN <<Head(parts)>> \o nonEmpty(Tail(parts))
    ELSE nonEmpty(Tail(parts))

----------------------------------------------------------------------------
(* The parsed document.                                                    *)

\* an element, and a text node (a NavigableString)
El(tag, cls, id, parent) ==
    [tag |-> tag, cls |-> cls, id |-> id, name |-> "", parent |-> parent,
     text |-> <<>>, attr |-> NoAttr]

ElAttr(tag, cls, parent, attr) ==
    [tag |-> tag, cls |-> cls, id |-> "", name |-> "", parent |-> parent,
     text |-> <<>>, attr |-> attr]

Meta(name, parent, content) ==
    [tag |-> "meta", cls |-> "", id |-> "", name |-> name, parent |-> parent,
     text |-> <<>>, attr |-> content]

Txt(parent, text) ==
    [tag |-> "#text", cls |-> "", id |-> "", name |-> "", parent |-> parent,
     text |-> text, attr |-> NoAttr]

\* BeautifulSoup(response.text, 'html.parser').  script_strings: whether
\* get_text returns the strings inside <script>/<style> of a container
\* (bs4 before 4.9.0 does, later versions do not); the source pins no version.
BeautifulSoup(nodes, script_strings) ==
    [nodes |-> nodes, dead |-> {}, script_strings |-> script_strings]

\* node i lies below node a in the tree (every node lies below the document, 0)
RECURSIVE under(_, _, _)
under(soup, i, a) ==
    IF a = 0 THEN TRUE
    ELSE LET p == soup.nodes[i].parent
         IN  IF p = 0 THEN FALSE ELSE p = a \/ under(soup, p, a)

\* the elements of a set of node indices in document order
RECURSIVE Ordered(_)
Ordered(S) ==
    IF S = {} THEN <<>>
    ELSE LET m == CHOOSE x \in S : \A y \in S : x <= y
         IN  <<m>> \o Ordered(S \ {m})

IsElement(soup, i) == i \notin soup.dead /\ soup.nodes[i].tag # "#text"

\* root.select('.cls') / root.select('tag') / root.select('#id')
select_class(soup, root, cls) ==
    Ordered({i \in 1..Len(soup.nodes) :
                IsElement(soup, i) /\ under(soup, i, root) /\ soup.nodes[i].cls = cls})

select_tags(soup, root, tags) ==
    Ordered({i \in 1..Len(soup.nodes) :
                IsElement(soup, i) /\ under(soup, i, root) /\ soup.nodes[i].tag \in tags})

select_id(soup, root, id) ==
    Ordered({i \in 1..Len(soup.nodes) :
                IsElement(soup, i) /\ under(soup, i, root) /\ soup.nodes[i].id = id})

\* root.select('.cls tag'): the descendant combinator
select_desc(soup, root, cls, tag) ==
    Ordered({i \in 1..Len(soup.nodes) :
                /\ IsElement(soup, i) /\ under(soup, i, root) /\ soup.nodes[i].tag = tag
                /\ \E t \in 1..Len(soup.nodes) :
                      /\ IsElement(soup, t) /\ under(soup, t, root)
                      /\ soup.nodes[t].cls = cls /\ under(soup, i, t)})

\* select_one / find: the first match, 0 for None
first(matches) == IF matches = <<>> THEN 0 ELSE matches[1]

\* the strings get_text visits below root, in document order
strings(soup, root) ==
    LET vis(i) == \/ soup.script_strings
                  \/ soup.nodes[i].parent = root
                  \/ soup.nodes[i].parent = 0
                  \/ soup.nodes[soup.nodes[i].parent].tag \notin {"script", "style"}
        idx == Ordered({i \in 1..Len(soup.nodes) :
                          /\ i \notin soup.dead /\ soup.nodes[i].tag = "#text"
                          /\ under(soup, i, root) /\ vis(i)})
    IN  [k \in 1..Len(idx) |-> soup.nodes[idx[k]].text]

\* tag.text, tag.get_text()
text(soup, root) == join(strings(soup, root), <<>>)

\* tag.get_text(strip=True, separator=sep)
get_text_strip(soup, root, sep) == join(nonEmpty(stripAll(strings(soup, root))), sep)

\* element.decompose() for every element of S
decompose(soup, S) ==
    [soup EXCEPT !.dead = @ \cup {i \in 1..Len(soup.nodes) :
                                     \E a \in S : i = a \/ under(soup, i, a)}]

\* tag.get(attr) is truthy
has_attr(soup, i) == soup.nodes[i].attr # NoAttr /\ soup.nodes[i].attr # <<>>

----------------------------------------------------------------------------
(* Field extractors (lines 93-216).                                        *)

_get_name(soup) ==
    LET title == first(select_tags(soup, 0, {"title"}))
        title_text == strip(text(soup, title))
        h1 == first(select_tags(soup, 0, {"h1"}))
    IN  IF title # 0 /\ contains(title_text, <<DASH>>)
        THEN strip(split(title_text, <<DASH>>)[1])
        ELSE IF h1 # 0 THEN strip(text(soup, h1))
        ELSE <<>>

_get_manufacturer(soup) ==
    LET metas == select_tags(soup, 0, {"meta"})
        meta == first(SelectSeq(metas, LAMBDA i : soup.nodes[i].name = "keywords"))
        content == strip(soup.nodes[meta].attr)
        parts == nonEmpty(stripAll(split(content, <<COMMA>>)))
        brand_link == first(select_desc(soup, 0, "brand", "a"))
    IN  IF meta # 0 /\ has_attr(soup, meta) /\ parts # <<>>
        THEN parts[Len(parts)]
        ELSE IF brand_link # 0 THEN strip(text(soup, brand_link))
        ELSE <<>>

_get_price(soup) ==
    LET price_block == first(select_class(soup, 0, "packing-price-item"))
        old_price == first(select_class(soup, price_block, "price-del"))
        price_text == strip(text(soup, price_block))
        discount_block ==
            first(select_class(soup, price_block, "price-customer-discount-badge"))
    IN  IF price_block = 0
        THEN [old_price |-> <<>>, current_price |-> <<>>, discount |-> <<>>]
        ELSE [old_price |->
                 IF old_price # 0 THEN strip(text(soup, old_price)) ELSE <<>>,
              current_price |->
                 IF old_price # 0
                 THEN strip(remove(remove(price_text, strip(text(soup, old_price))),
                                   <<RUB>>))
                 ELSE <<>>,
              discount |->
                 IF discount_block # 0 THEN strip(text(soup, discount_block))
                 ELSE <<>>]

_get_category(soup) ==
    LET breadcrumbs == select_desc(soup, 0, "shop-head-menu", "li")
    IN  IF Len(breadcrumbs) >= 2
        THEN strip(text(soup, breadcrumbs[Len(breadcrumbs) - 1]))
        ELSE <<>>

\* the loop of lines 179-182 over the thumbnails still to visit
RECURSIVE thumbnails(_, _, _)
thumbnails(soup, imgs, images) ==
    IF imgs = <<>> THEN images
    ELSE LET src == soup.nodes[Head(imgs)].attr
         IN  IF has_attr(soup, Head(imgs)) /\ \A k \in 1..Len(images) : images[k] # src
             THEN thumbnails(soup, Tail(imgs), Append(images, src))
             ELSE thumbnails(soup, Tail(imgs), images)

_get_images(soup) ==
    LET main_image == first(select_class(soup, 0, "simpleLens-big-image"))
        images == IF main_image # 0 /\ has_attr(soup, main_image)
                  THEN <<soup.nodes[main_image].attr>> ELSE <<>>
    IN  thumbnails(soup, select_desc(soup, 0, "simpleLens-thumbnails-container", "img"),
                   images)

_get_weight(soup) ==
    LET items == select_class(soup, 0, "product-show-packing")
    IN  nonEmpty([k \in 1..Len(items) |-> strip(text(soup, items[k]))])

\* _get_tab_content returns the text and leaves the document changed: both
tab_soup(soup, tab_id) ==
    LET tab == first(select_id(soup, 0, tab_id))
    IN  IF tab # 0
        THEN decompose(soup, {i \in 1..Len(soup.nodes) :
                                /\ IsElement(soup, i) /\ under(soup, i, tab)
                                /\ soup.nodes[i].tag \in {"script", "style"}})
        ELSE soup

_get_tab_content(soup, tab_id) ==
    LET tab == first(select_id(soup, 0, tab_id))
    IN  IF tab # 0 THEN get_text_strip(tab_soup(soup, tab_id), tab, <<NL>>) ELSE <<>>

_get_reviews(soup) ==
    LET review_items == select_desc(soup, 0, "product-comments-block", "li")
    IN  [k \in 1..Len(review_items) |->
            [text |-> get_text_strip(soup, review_items[k], <<>>)]]

----------------------------------------------------------------------------
(* Python values held in a product record: each carries its type, which    *)
(* the normalisation loop of lines 84-86 tests with isinstance.            *)
Str(s) == [type |-> "str", v |-> s]
List(l) == [type |-> "list", v |-> l]
Dict(d) == [type |-> "dict", v |-> d]
NoneV == [type |-> "NoneType", v |-> <<>>]

\* a truth test that takes None for a record
truthy_always(value) == TRUE

\* bool(value)
truthy(value) ==
    CASE value.type = "NoneType" -> FALSE
      [] value.type = "dict" -> DOMAIN value.v # {}
      [] OTHER -> value.v # <<>>

\* datetime.now().isoformat()
isoformat(t) == <<"T", ToString(t)>>

\* a logging call: the level, what is reported and the URL or error it names
LogEntry(level, event, ref) == [level |-> level, event |-> event, ref |-> ref]

\* a handler that catches requests.RequestException alone
IsRequestException(kind) == kind \in {"Timeout", "HTTPError"}

\* the classes `except Exception` catches (lines 54, 89, 231)
IsException(kind) == kind \in {"Timeout", "HTTPError", "RecursionError", "OSError"}

\* a loop that replaces nothing
normalise_nothing(value) == value

\* lines 84-86: one value of product_data after the normalisation loop
normalise(value) ==
    IF value.type = "str" /\ strip(value.v) = <<>> THEN NoneV ELSE value

\* lines 67-81: the dict literal, its values computed in source order; the
\* four tab extractors run on the document the previous one left behind
product_data(url, soup, t) ==
    LET s1 == tab_soup(soup, "product-des")
        s2 == tab_soup(s1, "product-composition")
        s3 == tab_soup(s2, "product-analysis")
        s4 == tab_soup(s3, "product-feeding_rates")
    IN  [name |-> Str(_get_name(soup)),
         manufacturer |-> Str(_get_manufacturer(soup)),
         price |-> Dict(_get_price(soup)),
         category |-> Str(_get_category(soup)),
         images |-> List(_get_images(soup)),
         weight |-> List(_get_weight(soup)),
         description |-> Str(_get_tab_content(soup, "product-des")),
         composition |-> Str(_get_tab_content(s1, "product-composition")),
         analysis |-> Str(_get_tab_content(s2, "product-analysis")),
         feeding_norm |-> Str(_get_tab_content(s3, "product-feeding_rates")),
         reviews |-> List(_get_reviews(s4)),
         url |-> Str(url),
         parsed_date |-> Str(isoformat(t))]

\* A response of requests.get followed by raise_for_status and the parse:
\* kind "ok" carries the document, any other kind is the exception raised
\* inside the try block (Timeout by requests.get, HTTPError by
\* raise_for_status, RecursionError by the parser or an extractor).
Response(kind, nodes) == [kind |-> kind, nodes |-> nodes]

\* parse_product (lines 58-91): the value returned, what was logged, and the
\* exception that leaves the function ("" when none does)
parse_product(url, response, script_strings, t) ==
    LET info == LogEntry("INFO", "parsing", url)
        data == product_data(url, BeautifulSoup(response.nodes, script_strings), t)
    IN  IF response.kind = "ok"
        THEN [ret |-> Dict([k \in DOMAIN data |-> normalise(data[k])]),
              log |-> <<info>>, raised |-> ""]
        ELSE IF IsException(response.kind)
        THEN [ret |-> NoneV,
              log |-> <<info, LogEntry("ERROR", "parse_product", url)>>,
              raised |-> ""]
        ELSE [ret |-> NoneV, log |-> <<info>>, raised |-> response.kind]

\* self.base_url (line 22)
base_url ==
    <<"h", "t", "t", "p", "s", ":", "/", "/",
      "z", "o", "o", "m", "a", "g", "i", "a", ".", "r", "u">>

\* a link that is always put after the base origin
full_url_always_joined(href) == base_url \o href

\* line 49: the URL appended for one link
full_url(href) == IF startswith(href, <<"h", "t", "t", "p">>) THEN href ELSE base_url \o href

\* lines 46-50: the loop over the products still to visit
RECURSIVE collect_links(_, _, _)
collect_links(soup, products, product_links) ==
    IF products = <<>> THEN product_links
    ELSE LET link == first(select_desc(soup, Head(products), "title", "a"))
         IN  IF link # 0 /\ has_attr(soup, link)
             THEN collect_links(soup, Tail(products),
                                Append(product_links, full_url(soup.nodes[link].attr)))
             ELSE collect_links(soup, Tail(products), product_links)

\* get_product_links (lines 34-56)
get_product_links(response, script_strings) ==
    LET info == LogEntry("INFO", "fetching", <<>>)
        soup == BeautifulSoup(response.nodes, script_strings)
        product_links == collect_links(soup, select_class(soup, 0, "grid-product"), <<>>)
    IN  IF response.kind = "ok"
        THEN [ret |-> product_links,
              log |-> <<info, LogEntry("INFO", "found", <<ToString(Len(product_links))>>)>>,
              raised |-> ""]
        ELSE IF IsException(response.kind)
        THEN [ret |-> <<>>,
              log |-> <<info, LogEntry("ERROR", "get_product_links", <<>>)>>,
              raised |-> ""]
        ELSE [ret |-> <<>>, log |-> <<info>>, raised |-> response.kind]

\* The output directory: the fixed "latest" file and the timestamped files
\* by timestamp.  A file holds a batch in full, or part of one when the
\* write was cut short (open(name, 'w') truncates before json.dump writes).
NoFile == [data |-> <<>>, written |-> "absent"]
Full(data) == [data |-> data, written |-> "full"]
Partial(data) == [data |-> data, written |-> "partial"]

\* the steps of save_to_json at which an OSError can be raised
FailPoints == {"none", "open_stamped", "dump_stamped", "open_latest", "dump_latest"}

\* save_to_json with its two writes in the other order: the latest file first
save_to_json_latest_first(data, files, t, fail) ==
    LET stamped(c) == [x \in DOMAIN files.stamped \cup {t} |->
                          IF x = t THEN c ELSE files.stamped[x]]
        error == <<LogEntry("ERROR", "save_to_json", <<>>)>>
    IN  CASE fail = "open_stamped" ->
               [files |-> [files EXCEPT !.latest = Full(data)], log |-> error,
                raised |-> ""]
          [] fail = "dump_stamped" ->
               [files |-> [files EXCEPT !.latest = Full(data),
                                        !.stamped = stamped(Partial(data))],
                log |-> error, raised |-> ""]
          [] fail = "open_latest" ->
               [files |-> files, log |-> error, raised |-> ""]
          [] fail = "dump_latest" ->
               [files |-> [files EXCEPT !.latest = Partial(data)], log |-> error,
                raised |-> ""]
          [] OTHER ->
               [files |-> [files EXCEPT !.stamped = stamped(Full(data)),
                                        !.latest = Full(data)],
                log |-> <<LogEntry("INFO", "saved", <<>>)>>, raised |-> ""]

\* save_to_json (lines 218-232): the files and the log entry it leaves when
\* an OSError is raised at step fail
save_to_json(data, files, t, fail) ==
    LET stamped(c) == [x \in DOMAIN files.stamped \cup {t} |->
                          IF x = t THEN c ELSE files.stamped[x]]
        error == LogEntry("ERROR", "save_to_json", <<>>)
        caught == IsException("OSError")
    IN  CASE fail = "open_stamped" ->
               [files |-> files, log |-> IF caught THEN <<error>> ELSE <<>>,
                raised |-> IF caught THEN "" ELSE "OSError"]
          [] fail = "dump_stamped" ->
               [files |-> [files EXCEPT !.stamped = stamped(Partial(data))],
                log |-> IF caught THEN <<error>> ELSE <<>>,
                raised |-> IF caught THEN "" ELSE "OSError"]
          [] fail = "open_latest" ->
               [files |-> [files EXCEPT !.stamped = stamped(Full(data))],
                log |-> IF caught THEN <<error>> ELSE <<>>,
                raised |-> IF caught THEN "" ELSE "OSError"]
          [] fail = "dump_latest" ->
               [files |-> [files EXCEPT !.stamped = stamped(Full(data)),
                                        !.latest = Partial(data)],
                log |-> IF caught THEN <<error>> ELSE <<>>,
                raised |-> IF caught THEN "" ELSE "OSError"]
          [] OTHER ->
               [files |-> [files EXCEPT !.stamped = stamped(Full(data)),
                                        !.latest = Full(data)],
                log |-> <<LogEntry("INFO", "saved", <<>>)>>, raised |-> ""]

----------------------------------------------------------------------------
(* Bounds and inputs.                                                      *)

\* schedule.every(7).days (line 257) and time.sleep(3600) (line 263), in hours
PeriodHours == 168
SleepHours == 1

\* the longest run of run_parser, and the longest time between registering
\* the job (line 257) and the start of the first run (line 259), in hours
MaxRunHours == 1
MaxGapHours == 1
\* hours of the scheduling loop explored after the first period
ExtraHours == 3
\* periods explored by the scheduling specification
MaxPeriods == 2

\* a listing page: one .grid-product per item, holding a .title with or
\* without an anchor, the anchor with or without an href
RECURSIVE ListingNodes(_, _)
ListingNodes(items, base) ==
    IF items = <<>> THEN <<>>
    ELSE LET it == Head(items)
             frag == IF it.link
                     THEN <<El("div", "grid-product", "", 0),
                            El("div", "title", "", base + 1),
                            ElAttr("a", "", base + 2, it.href)>>
                     ELSE <<El("div", "grid-product", "", 0),
                            El("div", "title", "", base + 1)>>
         IN  frag \o ListingNodes(Tail(items), base + Len(frag))

Item(href) == [link |-> TRUE, href |-> href]
NoLink == [link |-> FALSE, href |-> NoAttr]

\* a product page with every field populated
FullDoc ==
    <<El("title", "", "", 0), Txt(1, <<"a", SP, DASH, SP, "z">>),
      Meta("keywords", 0, <<"k", COMMA, "m">>),
      El("div", "packing-price-item", "", 0),
      El("span", "price-del", "", 4), Txt(5, <<"2", SP, RUB>>),
      Txt(4, <<"1", SP, RUB>>),
      El("ul", "shop-head-menu", "", 0),
      El("li", "", "", 8), Txt(9, <<"c">>),
      El("li", "", "", 8), Txt(11, <<"a">>),
      ElAttr("img", "simpleLens-big-image", 0, <<"i">>),
      El("div", "product-show-packing", "", 0), Txt(14, <<"w">>),
      El("div", "", "product-des", 0), Txt(16, <<"d">>),
      El("div", "", "product-composition", 0), Txt(18, <<"c">>),
      El("div", "", "product-analysis", 0), Txt(20, <<"n">>),
      El("div", "", "product-feeding_rates", 0), Txt(22, <<"f">>),
      El("ul", "product-comments-block", "", 0),
      El("li", "", "", 24), Txt(25, <<"r">>)>>

\* an element that is not in the page, and a block that is not in the page
NoEl == <<"#NoEl">>
Piece(tag, cls, s) == [tag |-> tag, cls |-> cls, text |-> s]
NoBlock == <<Piece("#NoBlock", "", <<>>)>>
T(s) == Piece("#text", "", s)

\* <tag class=cls id=id>s</tag>, when the page has it
TextEl(tag, cls, id, parent, base, s) ==
    IF s = NoEl THEN <<>> ELSE <<El(tag, cls, id, parent), Txt(base + 1, s)>>

\* the children of a block: text nodes, and elements holding one text node
RECURSIVE Pieces(_, _, _)
Pieces(parent, base, ps) ==
    IF ps = <<>> THEN <<>>
    ELSE LET q == Head(ps)
             frag == IF q.tag = "#text" THEN <<Txt(parent, q.text)>>
                     ELSE <<El(q.tag, q.cls, "", parent), Txt(base + 1, q.text)>>
         IN  frag \o Pieces(parent, base + Len(frag), Tail(ps))

Block(tag, cls, id, parent, base, ps) ==
    IF ps = NoBlock THEN <<>>
    ELSE <<El(tag, cls, id, parent)>> \o Pieces(base + 1, base + 1, ps)

\* one <tag class=cls>s</tag> under parent for every string
RECURSIVE TextEls(_, _, _, _, _)
TextEls(tag, cls, parent, base, ss) ==
    IF ss = <<>> THEN <<>>
    ELSE <<El(tag, cls, "", parent), Txt(base + 1, Head(ss))>>
         \o TextEls(tag, cls, parent, base + 2, Tail(ss))

\* one <li>...</li> under parent for every review, a sequence of pieces
RECURSIVE ReviewItems(_, _, _)
ReviewItems(parent, base, rs) ==
    IF rs = <<>> THEN <<>>
    ELSE LET frag == Block("li", "", "", parent, base, Head(rs))
         IN  frag \o ReviewItems(parent, base + Len(frag), Tail(rs))

\* A product page laid out as the selectors of lines 93-216 expect, from a
\* description d of what it holds.  The comments list stands at the top
\* level or, with reviews_in_des, inside the description tab.
ProductDoc(d) ==
    LET n1 == TextEl("title", "", "", 0, 0, d.title)
        n2 == n1 \o TextEl("h1", "", "", 0, Len(n1), d.h1)
        n3 == n2 \o (IF d.keywords = NoEl THEN <<>>
                     ELSE <<Meta("keywords", 0, d.keywords)>>)
        n4 == n3 \o (IF d.brand = NoEl THEN <<>>
                     ELSE <<El("div", "brand", "", 0)>>
                          \o TextEl("a", "", "", Len(n3) + 1, Len(n3) + 1, d.brand))
        n5 == n4 \o Block("div", "packing-price-item", "", 0, Len(n4), d.price)
        n6 == n5 \o <<El("ul", "shop-head-menu", "", 0)>>
                 \o TextEls("li", "", Len(n5) + 1, Len(n5) + 1, d.crumbs)
        n7 == n6 \o (IF d.big = NoEl THEN <<>>
                     ELSE <<ElAttr("img", "simpleLens-big-image", 0, d.big)>>)
        n8 == n7 \o <<El("div", "simpleLens-thumbnails-container", "", 0)>>
                 \o [k \in 1..Len(d.thumbs) |-> ElAttr("img", "", Len(n7) + 1, d.thumbs[k])]
        n9 == n8 \o TextEls("div", "product-show-packing", 0, Len(n8), d.packs)
        n10 == n9 \o Block("div", "", "product-composition", 0, Len(n9), d.comp)
        n11 == n10 \o Block("div", "", "product-analysis", 0, Len(n10), d.anal)
        n12 == n11 \o Block("div", "", "product-feeding_rates", 0, Len(n11), d.feed)
        n13 == n12 \o Block("div", "", "product-des", 0, Len(n12), d.des)
        above == IF d.reviews_in_des /\ d.des # NoBlock THEN Len(n12) + 1 ELSE 0
    IN  n13 \o <<El("ul", "product-comments-block", "", above)>>
            \o ReviewItems(Len(n13) + 1, Len(n13) + 1, d.reviews)

\* every string of at most n characters of an alphabet
Strings(alphabet, n) == UNION {[1..k -> alphabet] : k \in 0..n}
\* every sequence of at most n members of a set
Seqs(S, n) == UNION {[1..k -> S] : k \in 0..n}

\* the longest text, and the most children of a block, of a generated page
MaxTextLen == 3
MaxPieces == 2
\* the most breadcrumbs, images or packings of a generated page
MaxListLen == 2

EmptyPage ==
    [title |-> NoEl, h1 |-> NoEl, keywords |-> NoEl, brand |-> NoEl,
     price |-> NoBlock, crumbs |-> <<>>, big |-> NoEl, thumbs |-> <<>>,
     packs |-> <<>>, comp |-> NoBlock, anal |-> NoBlock, feed |-> NoBlock,
     des |-> NoBlock, reviews |-> <<>>, reviews_in_des |-> FALSE]

\* pages that differ in the title and the first heading
NamePages ==
    {[EmptyPage EXCEPT !.title = t, !.h1 = h] :
        t \in {NoEl} \cup Strings({"a", SP, DASH}, MaxTextLen),
        h \in {NoEl, <<SP>>, <<"b">>, <<SP, "b", NL>>}}

\* pages that differ in the keywords metadata and the brand link
ManufacturerPages ==
    {[EmptyPage EXCEPT !.keywords = k, !.brand = b] :
        k \in {NoEl, NoAttr} \cup Strings({"m", SP, COMMA}, MaxTextLen),
        b \in {NoEl, <<SP>>, <<SP, "b">>}}

\* pages that differ in the pricing block; the last is the block
\* "2000 R1500 R" with the old price "2000 R"
PricePieces ==
    {Piece("span", "price-del", <<"2", SP, RUB>>), Piece("span", "price-del", <<>>),
     Piece("span", "price-customer-discount-badge", <<"5">>),
     T(<<"1", SP, RUB>>), T(<<SP, "2", SP, RUB>>)}
ScenarioPrice ==
    <<Piece("span", "price-del", <<"2", "0", "0", "0", SP, RUB>>),
      T(<<"1", "5", "0", "0", SP, RUB>>)>>
PricePages ==
    {[EmptyPage EXCEPT !.price = p] :
        p \in {NoBlock, ScenarioPrice} \cup Seqs(PricePieces, MaxPieces)}

\* pages that differ in the breadcrumbs, the images and the packings
ListPages ==
    {[EmptyPage EXCEPT !.crumbs = c] : c \in Seqs({<<>>, <<SP>>, <<SP, "c">>}, MaxListLen + 1)}
    \cup {[EmptyPage EXCEPT !.big = b, !.thumbs = t] :
             b \in {NoEl, NoAttr, <<>>, <<"i">>},
             t \in Seqs({NoAttr, <<>>, <<"i">>, <<"j">>}, MaxListLen)}
    \cup {[EmptyPage EXCEPT !.packs = w] : w \in Seqs({<<>>, <<SP>>, <<"w", SP>>}, MaxListLen)}

\* pages that differ in the tabs and the reviews
TabPieces ==
    {T(<<"d">>), T(<<SP>>), T(<<SP, "e", NL>>), Piece("script", "", <<"s">>),
     Piece("style", "product-show-packing", <<"w">>)}
TabPages ==
    {[EmptyPage EXCEPT !.des = p, !.comp = q, !.reviews = r, !.reviews_in_des = b] :
        p \in {NoBlock} \cup Seqs(TabPieces, MaxPieces),
        q \in {NoBlock, <<Piece("script", "", <<"s">>), T(<<"c">>)>>},
        r \in {<<>>, <<<<T(<<SP, "r">>), Piece("script", "", <<"s">>)>>, <<>>>>},
        b \in BOOLEAN}
    \cup {[EmptyPage EXCEPT !.anal = p, !.feed = q] :
             p \in {NoBlock, <<T(<<"n">>), Piece("style", "", <<"s">>)>>},
             q \in {NoBlock, <<>>, <<T(<<SP>>)>>, <<T(<<"f">>), T(<<"g">>)>>}}

\* the hrefs of generated listing pages: relative and absolute ones, ones
\* that only begin like "http", and ones with whitespace around them
MaxHrefTail == 1
MaxItems == 2
HrefPrefixes ==
    {<<>>, <<"/">>, <<"h", "t", "t", "p">>, <<"h", "t", "t">>,
     <<"h", "t", "t", "p", "s", ":", "/", "/">>, <<SP, "/">>}
Hrefs == {x \o y : x \in HrefPrefixes, y \in Strings({"a", SP}, MaxHrefTail)}
ListingPages ==
    {[items |-> its, nodes |-> ListingNodes(its, 0)] :
        its \in Seqs({NoLink, Item(NoAttr)} \cup {Item(h) : h \in Hrefs}, MaxItems)}

ProductPages == NamePages \cup ManufacturerPages \cup PricePages \cup ListPages \cup TabPages

\* what the sale page answers in a run, and what a product page answers
ListingResponses ==
    {Response("HTTPError", <<>>),
     Response("ok", ListingNodes(<<>>, 0)),
     Response("ok", ListingNodes(<<Item(<<"/", "a">>)>>, 0)),
     Response("ok", ListingNodes(<<Item(<<"/", "a">>), Item(<<"/", "b">>)>>, 0))}

ProductResponses ==
    {Response("ok", FullDoc), Response("Timeout", <<>>), Response("RecursionError", <<>>)}

----------------------------------------------------------------------------
(* State.                                                                  *)
VARIABLES
    pc,             \* where main stands: "main", "call_run", "loop",
                    \* "returned", "check", "sleep", "crashed"
    caller,         \* who called run_parser: "main" (line 259) or "schedule"
    now,            \* the clock, in hours
    next_run,       \* the job's next_run, set by schedule
    horizon,        \* the last hour the scheduling loop is followed to
    script_strings, \* see BeautifulSoup
    product_links,  \* run_parser's locals
    idx,
    products_data,
    log,            \* the log lines of the current run
    files,          \* the output directory
    raised,         \* the exception that left run_parser, "" when none
    calls,          \* the calls run_parser made in the current run
    starts,         \* every start of run_parser so far
    ends,           \* the time every finished run returned at
    registered_at,  \* when the job was registered
    slept,          \* how many times line 263 has slept
    soup, orig, call,       \* the extractor specification
    page, links_out,        \* the link-discovery specification
    url_in, resp_in, product \* the assembler specification

mainVars == <<pc, caller, now, next_run, horizon, script_strings, product_links, idx,
              products_data, log, files, raised, calls, starts, ends, registered_at,
              slept>>
extractVars == <<soup, orig, call>>
linkVars == <<page, links_out>>
parseVars == <<url_in, resp_in, product>>
vars == <<mainVars, extractVars, linkVars, parseVars>>

\* the variables of the specifications that are not running
IdleMain ==
    /\ pc = "idle" /\ caller = "" /\ now = 0 /\ next_run = 0 /\ horizon = 0
    /\ product_links = <<>> /\ idx = 0 /\ products_data = <<>> /\ log = <<>>
    /\ files = [latest |-> NoFile, stamped |-> <<>>] /\ raised = ""
    /\ calls = <<>> /\ starts = <<>> /\ ends = <<>> /\ registered_at = 0
    /\ slept = 0
NoCall == [fn |-> "", tab |-> "", ret |-> <<>>]
NotDone == [done |-> FALSE, kind |-> "", ret |-> <<>>]
IdleExtract == soup = BeautifulSoup(<<>>, FALSE) /\ orig = soup /\ call = NoCall
IdleLinks == page = [items |-> <<>>, nodes |-> <<>>] /\ links_out = NotDone
IdleParse == url_in = <<>> /\ resp_in = Response("ok", <<>>) /\ product = NotDone

----------------------------------------------------------------------------
(* main and run_parser (lines 234-263).                                    *)

InitMain(h) ==
    /\ pc = "main" /\ caller = "" /\ now = 0 /\ next_run = 0 /\ horizon = h
    /\ script_strings \in BOOLEAN
    /\ product_links = <<>> /\ idx = 0 /\ products_data = <<>> /\ log = <<>>
    /\ files = [latest |-> NoFile, stamped |-> <<>>] /\ raised = ""
    /\ calls = <<>> /\ starts = <<>> /\ ends = <<>> /\ registered_at = 0
    /\ slept = 0
    /\ IdleExtract /\ IdleLinks /\ IdleParse

Init == InitMain(PeriodHours + ExtraHours)

\* what is recorded of a start of run_parser: the time, the caller, how many
\* runs had returned, how often the loop had slept, and the files found
StartOfRun ==
    [t |-> now, caller |-> caller, ended |-> Len(ends), slept |-> slept,
     files |-> files]

\* a run that saves whatever the batch holds
should_save_always(data) == TRUE

\* line 247: `if products_data:`
should_save(data) == data # <<>>

\* a job that counts as due an hour early
should_run_early(t, due) == t + 1 >= due

\* schedule's Job.should_run, asked by run_pending (line 262)
should_run(t, due) == t >= due

\* lines 254-257: the parser is built and the job registered; line 259 follows
\* after some time
Register ==
    /\ pc = "main"
    /\ next_run' = now + PeriodHours
    /\ registered_at' = now
    /\ \E gap \in 0..MaxGapHours : now' = now + gap
    /\ caller' = "main"
    /\ pc' = "call_run"
    /\ UNCHANGED <<horizon, script_strings, product_links, idx, products_data, log,
                   files, raised, calls, starts, ends, slept>>
    /\ UNCHANGED <<extractVars, linkVars, parseVars>>

\* lines 236-238: run_parser starts and calls get_product_links
RunStart ==
    /\ pc = "call_run"
    /\ \E response \in ListingResponses :
          LET r == get_product_links(response, script_strings)
          IN  /\ product_links' = r.ret
              /\ log' = <<LogEntry("INFO", "start", <<>>)>> \o r.log
              /\ raised' = r.raised
              /\ calls' = <<[fn |-> "get_product_links", arg |-> <<>>,
                             kind |-> response.kind, ret |-> List(r.ret)]>>
              /\ pc' = IF r.raised = "" THEN "loop" ELSE "crashed"
    /\ products_data' = <<>>
    /\ idx' = 1
    /\ starts' = Append(starts, StartOfRun)
    /\ UNCHANGED <<caller, now, next_run, horizon, script_strings, files, ends,
                   registered_at, slept>>
    /\ UNCHANGED <<extractVars, linkVars, parseVars>>

\* lines 240-245: one turn of the loop over product_links
ParseNext ==
    /\ pc = "loop"
    /\ idx <= Len(product_links)
    /\ \E response \in ProductResponses :
          LET link == product_links[idx]
              r == parse_product(link, response, script_strings, now)
          IN  /\ products_data' = IF truthy(r.ret) THEN Append(products_data, r.ret)
                                  ELSE products_data
              /\ log' = log \o <<LogEntry("INFO", "processing", link)>> \o r.log
              /\ raised' = r.raised
              /\ calls' = Append(calls, [fn |-> "parse_product", arg |-> link,
                                         kind |-> response.kind, ret |-> r.ret])
              /\ pc' = IF r.raised = "" THEN "loop" ELSE "crashed"
    /\ idx' = idx + 1
    /\ UNCHANGED <<caller, now, next_run, horizon, script_strings, product_links,
                   files, starts, ends, registered_at, slept>>
    /\ UNCHANGED <<extractVars, linkVars, parseVars>>

\* lines 247-251: the loop is over; the batch is saved or a warning logged,
\* and run_parser returns, the whole run having taken some time
Finish ==
    /\ pc = "loop"
    /\ idx > Len(product_links)
    /\ \E d \in 0..MaxRunHours : now' = now + d
    /\ IF should_save(products_data)
       THEN \E fail \in FailPoints :
               LET r == save_to_json(products_data, files, now', fail)
               IN  /\ files' = r.files
                   /\ raised' = r.raised
                   /\ log' = log \o r.log \o
                             (IF r.raised = "" THEN <<LogEntry("INFO", "completed", <<>>)>>
                              ELSE <<>>)
                   /\ calls' = Append(calls, [fn |-> "save_to_json", arg |-> <<>>,
                                              kind |-> fail, ret |-> List(products_data)])
                   /\ pc' = IF r.raised = "" THEN "returned" ELSE "crashed"
       ELSE /\ log' = Append(log, LogEntry("WARNING", "no_products", <<>>))
            /\ pc' = "returned"
            /\ UNCHANGED <<files, raised, calls>>
    /\ ends' = Append(ends, now')
    /\ UNCHANGED <<caller, next_run, horizon, script_strings, product_links, idx,
                   products_data, starts, registered_at, slept>>
    /\ UNCHANGED <<extractVars, linkVars, parseVars>>

\* run_parser has returned to its caller: to main before the loop (line 259),
\* or to schedule's Job.run, which sets next_run a period after the return
Return ==
    /\ pc = "returned"
    /\ IF caller = "main"
       THEN pc' = "check" /\ UNCHANGED next_run
       ELSE pc' = "sleep" /\ next_run' = now + PeriodHours
    /\ product_links' = <<>> /\ idx' = 0 /\ products_data' = <<>>
    /\ UNCHANGED <<caller, now, horizon, script_strings, log, files, raised, calls,
                   starts, ends, registered_at, slept>>
    /\ UNCHANGED <<extractVars, linkVars, parseVars>>

\* line 262: schedule.run_pending() runs the job when it is due
Check ==
    /\ pc = "check"
    /\ IF should_run(now, next_run)
       THEN pc' = "call_run" /\ caller' = "schedule"
       ELSE pc' = "sleep" /\ UNCHANGED caller
    /\ UNCHANGED <<now, next_run, horizon, script_strings, product_links, idx,
                   products_data, log, files, raised, calls, starts, ends,
                   registered_at, slept>>
    /\ UNCHANGED <<extractVars, linkVars, parseVars>>

\* line 263: time.sleep(3600)
Sleep ==
    /\ pc = "sleep"
    /\ now + SleepHours <= horizon
    /\ now' = now + SleepHours
    /\ pc' = "check"
    /\ slept' = slept + 1
    /\ UNCHANGED <<caller, next_run, horizon, script_strings, product_links, idx,
                   products_data, log, files, raised, calls, starts, ends,
                   registered_at>>
    /\ UNCHANGED <<extractVars, linkVars, parseVars>>

\* run_parser as one step, for the scheduling specification: it starts,
\* takes some time and returns
RunParser ==
    /\ pc = "call_run"
    /\ starts' = Append(starts, StartOfRun)
    /\ \E d \in 0..MaxRunHours : now' = now + d
    /\ ends' = Append(ends, now')
    /\ pc' = "returned"
    /\ UNCHANGED <<caller, next_run, horizon, script_strings, product_links, idx,
                   products_data, log, files, raised, calls, registered_at, slept>>
    /\ UNCHANGED <<extractVars, linkVars, parseVars>>

Next == Register \/ RunStart \/ ParseNext \/ Finish \/ Return \/ Check \/ Sleep

Spec == Init /\ [][Next]_vars

InitSched == InitMain(MaxPeriods * PeriodHours + ExtraHours)
NextSched == Register \/ RunParser \/ Return \/ Check \/ Sleep
SpecSched == InitSched /\ [][NextSched]_vars

----------------------------------------------------------------------------
(* Properties of run_parser, save_to_json and main.                        *)

ParseCalls == SelectSeq(calls, LAMBDA c : c.fn = "parse_product")
SaveCalls == SelectSeq(calls, LAMBDA c : c.fn = "save_to_json")
\* the links get_product_links returned in the current run
ReturnedLinks == calls[1].ret.v
\* the records parse_product returned in the current run, in call order
ReturnedRecords ==
    LET ok == SelectSeq(ParseCalls, LAMBDA c : c.ret.type = "dict")
    IN  [k \in 1..Len(ok) |-> ok[k].ret]
\* the current run has been through its loop and returned
RunOver == calls # <<>> /\ Len(ends) = Len(starts)
HasLog(level, event, ref) ==
    \E k \in 1..Len(log) : log[k] = LogEntry(level, event, ref)

\* C1: in every run each link returned by get_product_links is passed to
\* parse_product exactly once, in listing order, whatever earlier calls
\* returned, and the batch (also the one handed to save_to_json) is the
\* records of the links whose parse_product returned one, in listing order.
C1_BatchInListingOrder ==
    calls # <<>> =>
        /\ Len(ParseCalls) <= Len(ReturnedLinks)
        /\ \A k \in 1..Len(ParseCalls) : ParseCalls[k].arg = ReturnedLinks[k]
        /\ RunOver => Len(ParseCalls) = Len(ReturnedLinks)
        /\ pc = "loop" => products_data = ReturnedRecords
        /\ pc = "loop" => Len(ParseCalls) = idx - 1
        /\ \A k \in 1..Len(SaveCalls) : SaveCalls[k].ret.v = ReturnedRecords

\* a run of two links in which the first product failed and the second did
\* not has saved the second product's record alone
C1_Witness ==
    /\ pc = "returned"
    /\ Len(ReturnedLinks) = 2
    /\ Len(ParseCalls) = 2
    /\ ParseCalls[1].kind = "Timeout" /\ ParseCalls[2].kind = "ok"
    /\ Len(SaveCalls) = 1
    /\ Len(SaveCalls[1].ret.v) = 1
    /\ SaveCalls[1].ret.v[1].v.url = Str(ReturnedLinks[2])

\* C2: no failure of a fetch, of an extraction or of a file write leaves
\* run_parser: the failing call logs an error and returns its empty result
\* (get_product_links the empty list, parse_product None, save_to_json
\* nothing), and main goes on to its schedule checks.
C2_NoFailurePropagates ==
    /\ raised = ""
    /\ pc \in {"main", "call_run", "loop", "returned", "check", "sleep"}
    /\ \A k \in 1..Len(calls) :
          LET c == calls[k]
          IN  /\ (c.fn = "get_product_links" /\ c.kind # "ok") =>
                     c.ret.v = <<>> /\ HasLog("ERROR", "get_product_links", <<>>)
              /\ (c.fn = "parse_product" /\ c.kind # "ok") =>
                     c.ret = NoneV /\ HasLog("ERROR", "parse_product", c.arg)
              /\ (c.fn = "save_to_json" /\ c.kind # "none") =>
                     HasLog("ERROR", "save_to_json", <<>>)

\* main is back at a schedule check after a run in which an extraction and
\* the write of the latest file failed
C2_Witness ==
    /\ pc = "check"
    /\ \E k \in 1..Len(calls) :
          calls[k].fn = "parse_product" /\ calls[k].kind = "RecursionError"
    /\ \E k \in 1..Len(calls) :
          calls[k].fn = "save_to_json" /\ calls[k].kind = "dump_latest"

\* C3: a run whose batch is empty never calls save_to_json, leaves the
\* timestamped files and the latest file as it found them and logs a
\* warning; a run whose batch is not empty calls save_to_json exactly once,
\* after the last link has been processed.
C3_SaveOnlyNonEmpty ==
    /\ pc = "loop" => SaveCalls = <<>>
    /\ (RunOver /\ ReturnedRecords = <<>>) =>
          /\ SaveCalls = <<>>
          /\ files = starts[Len(starts)].files
          /\ HasLog("WARNING", "no_products", <<>>)
    /\ (RunOver /\ ReturnedRecords # <<>>) =>
          /\ Len(SaveCalls) = 1
          /\ calls[Len(calls)].fn = "save_to_json"
          /\ Len(ParseCalls) = Len(ReturnedLinks)

\* a second run whose listing gave two links and whose products all failed
\* has returned: it found the first run's files and left them
C3_Witness ==
    /\ pc = "returned"
    /\ Len(starts) = 2
    /\ files.latest # NoFile
    /\ calls[1].kind = "ok" /\ Len(ReturnedLinks) = 2
    /\ Len(ParseCalls) = 2
    /\ ReturnedRecords = <<>>

\* the save_to_json call of the current run, when it made one
SaveCall == SaveCalls[1]
SavedAt == ends[Len(ends)]
LatestBefore == starts[Len(starts)].files.latest

\* C10 as claimed: whenever save_to_json has returned, the latest file
\* holds in full the batch of the timestamped file the call wrote, or is
\* untouched if the call wrote no timestamped file.
C10_LatestNeverBehind ==
    (RunOver /\ SaveCalls # <<>>) =>
        IF SavedAt \in DOMAIN files.stamped
        THEN files.latest = Full(files.stamped[SavedAt].data)
        ELSE files.latest = LatestBefore

\* C10 as amended: when save_to_json has returned without logging an error,
\* the latest file and the timestamped file it wrote both hold the batch in
\* full; when a write failed, the latest file is untouched if the failure
\* came before the latest file was written to (the timestamped file then
\* being absent, partial, or full and newer than the latest file), and holds
\* part of the batch if the failure came while it was being written.
C10_LatestAfterSave ==
    (RunOver /\ SaveCalls # <<>>) =>
        LET data == SaveCall.ret.v
            failed == HasLog("ERROR", "save_to_json", <<>>)
        IN  /\ failed <=> SaveCall.kind # "none"
            /\ ~failed =>
                  /\ files.latest = Full(data)
                  /\ files.stamped[SavedAt] = Full(data)
            /\ failed =>
                  /\ files.latest \in {LatestBefore, Partial(data)}
                  /\ SaveCall.kind \in {"open_stamped", "dump_stamped", "open_latest"}
                        => files.latest = LatestBefore
                  /\ SaveCall.kind = "dump_latest" => files.latest = Partial(data)
                  /\ SaveCall.kind = "open_stamped" => SavedAt \notin DOMAIN files.stamped
                  /\ SaveCall.kind = "dump_stamped" => files.stamped[SavedAt] = Partial(data)
                  /\ SaveCall.kind \in {"open_latest", "dump_latest"}
                        => files.stamped[SavedAt] = Full(data)

\* the second run wrote its timestamped file in full and then could not
\* open the latest file, which still holds the first run's batch
C10_Witness ==
    /\ RunOver /\ SaveCalls # <<>>
    /\ Len(starts) = 2
    /\ SaveCall.kind = "open_latest"
    /\ LatestBefore.written = "full"
    /\ files.latest = LatestBefore
    /\ files.stamped[SavedAt] = Full(SaveCall.ret.v)
    /\ files.stamped[SavedAt].data # files.latest.data

\* The first run starts before the first sleep; every later run is started
\* by a schedule check, no earlier than seven days after the job was
\* registered or the previous scheduled run returned; a due run starts at
\* the first check after it is due (the loop never sleeps with the job
\* due); no run starts while one is going on.
RunsWellFormed ==
    /\ pc \in {"check", "sleep", "returned"} => starts # <<>>
    /\ starts # <<>> => starts[1].caller = "main" /\ starts[1].slept = 0
    /\ \A k \in 2..Len(starts) :
          /\ starts[k].caller = "schedule"
          /\ starts[k].t >= (IF k = 2 THEN registered_at ELSE ends[k - 1]) + PeriodHours
    /\ pc = "sleep" => now < next_run
    /\ Len(starts) - Len(ends) \in {0, 1}
    /\ \A k \in 1..Len(starts) : starts[k].ended = k - 1

\* C8 as claimed: the runs are started as above, and the starts of any two
\* consecutive runs are at least seven days apart.
C8_SevenDaysBetweenStarts ==
    /\ RunsWellFormed
    /\ \A k \in 2..Len(starts) : starts[k].t - starts[k - 1].t >= PeriodHours

\* C8 as amended: as claimed, but the starts of two consecutive scheduled
\* runs are at least seven days apart, while the first scheduled run starts
\* at least seven days after the registration of the job, which precedes
\* the start of the first run.
C8_SevenDaysBetweenScheduledStarts ==
    /\ RunsWellFormed
    /\ \A k \in 3..Len(starts) : starts[k].t - starts[k - 1].t >= PeriodHours
    /\ \A k \in 2..Len(starts) : starts[k].t - registered_at >= PeriodHours

\* two scheduled runs have started, the first of them less than seven days
\* after the start of the first run
C8_Witness ==
    /\ Len(starts) = 3
    /\ starts[2].t - starts[1].t < PeriodHours
    /\ starts[3].t - starts[2].t >= PeriodHours

----------------------------------------------------------------------------
(* The field extractors, called in any order on one parsed document.       *)

InitExtract ==
    /\ IdleMain /\ IdleLinks /\ IdleParse
    /\ script_strings \in BOOLEAN
    /\ \E d \in ProductPages : orig = BeautifulSoup(ProductDoc(d), script_strings)
    /\ soup = orig
    /\ call = NoCall

Called(fn, tab, value) ==
    /\ call' = [fn |-> fn, tab |-> tab, ret |-> value]
    /\ UNCHANGED <<orig, mainVars, linkVars, parseVars>>

Call_get_name == Called("_get_name", "", _get_name(soup)) /\ UNCHANGED soup
Call_get_manufacturer ==
    Called("_get_manufacturer", "", _get_manufacturer(soup)) /\ UNCHANGED soup
Call_get_price == Called("_get_price", "", _get_price(soup)) /\ UNCHANGED soup
Call_get_category == Called("_get_category", "", _get_category(soup)) /\ UNCHANGED soup
Call_get_images == Called("_get_images", "", _get_images(soup)) /\ UNCHANGED soup
Call_get_weight == Called("_get_weight", "", _get_weight(soup)) /\ UNCHANGED soup
Call_get_reviews == Called("_get_reviews", "", _get_reviews(soup)) /\ UNCHANGED soup

\* the tab ids of lines 74-77
TabIds ==
    {"product-des", "product-composition", "product-analysis", "product-feeding_rates"}

Call_get_tab_content ==
    \E tab_id \in TabIds :
        /\ Called("_get_tab_content", tab_id, _get_tab_content(soup, tab_id))
        /\ soup' = tab_soup(soup, tab_id)

NextExtract ==
    \/ Call_get_name \/ Call_get_manufacturer \/ Call_get_price \/ Call_get_category
    \/ Call_get_images \/ Call_get_weight \/ Call_get_tab_content \/ Call_get_reviews

SpecExtract == InitExtract /\ [][NextExtract]_vars

----------------------------------------------------------------------------
(* get_product_links on one listing page.                                  *)

InitLinks ==
    /\ IdleMain /\ IdleExtract /\ IdleParse
    /\ script_strings \in BOOLEAN
    /\ page \in ListingPages
    /\ links_out = NotDone

GetProductLinks ==
    /\ ~links_out.done
    /\ \E kind \in {"ok", "HTTPError"} :
          LET r == get_product_links(Response(kind, page.nodes), script_strings)
          IN  links_out' = [done |-> TRUE, kind |-> kind, ret |-> r.ret]
    /\ UNCHANGED <<page, mainVars, extractVars, parseVars>>

NextLinks == GetProductLinks

SpecLinks == InitLinks /\ [][NextLinks]_vars

----------------------------------------------------------------------------
(* parse_product on one product page.                                      *)

\* URLs get_product_links hands to parse_product
ParseUrls ==
    {full_url(h) : h \in {<<"/", "a">>, <<"/", "a", SP>>, <<"h", "t", "t", "p", ":", "a">>}}

InitParse ==
    /\ IdleMain /\ IdleExtract /\ IdleLinks
    /\ script_strings \in BOOLEAN
    /\ url_in \in ParseUrls
    /\ resp_in \in {Response("ok", ProductDoc(d)) : d \in ProductPages}
                   \cup {Response("Timeout", <<>>)}
    /\ product = NotDone

ParseProduct ==
    /\ ~product.done
    /\ product' = [done |-> TRUE, kind |-> resp_in.kind,
                   ret |-> parse_product(url_in, resp_in, script_strings, now).ret]
    /\ UNCHANGED <<url_in, resp_in, mainVars, extractVars, linkVars>>

NextParse == ParseProduct

SpecParse == InitParse /\ [][NextParse]_vars

----------------------------------------------------------------------------
(* Properties of get_product_links, parse_product and the extractors.      *)

\* the URL of an href: kept when it begins with "http", else put after the
\* site's base origin
Resolved(href) ==
    IF Len(href) >= 4 /\ SubSeq(href, 1, 4) = <<"h", "t", "t", "p">> THEN href
    ELSE <<"h", "t", "t", "p", "s", ":", "/", "/",
           "z", "o", "o", "m", "a", "g", "i", "a", ".", "r", "u">> \o href

FetchedListing == links_out.done /\ links_out.kind = "ok"

\* C4 as claimed: a listing page of N items that each hold a title link
\* gives exactly N URLs, the i-th from the i-th item, absolute hrefs kept
\* and relative ones resolved against the base origin.
C4_OneUrlPerItem ==
    (FetchedListing /\ \A k \in 1..Len(page.items) : page.items[k].link) =>
        /\ Len(links_out.ret) = Len(page.items)
        /\ \A k \in 1..Len(page.items) :
              links_out.ret[k] = Resolved(page.items[k].href)

\* C4 as amended: a listing page gives exactly one URL for each item whose
\* title link has a non-empty href, in document order (an item without a
\* title link, or whose link has no href or an empty one, gives none): an
\* href that begins with "http" is kept unchanged, any other is appended to
\* the base origin.
C4_OneUrlPerHref ==
    FetchedListing =>
        LET linked == SelectSeq(page.items,
                                LAMBDA it : it.link /\ it.href \notin {NoAttr, <<>>})
        IN  /\ Len(links_out.ret) = Len(linked)
            /\ \A k \in 1..Len(linked) : links_out.ret[k] = Resolved(linked[k].href)

\* of two items the first holds a link without an href and the second a
\* relative link: one URL is returned, the second item's
C4_Witness ==
    /\ FetchedListing
    /\ Len(page.items) = 2
    /\ page.items[1] = Item(NoAttr)
    /\ page.items[2] = Item(<<"/", "a">>)
    /\ Len(links_out.ret) = 1
    /\ links_out.ret[1] = Resolved(<<"/", "a">>)

StringFields ==
    {"name", "manufacturer", "category", "description", "composition", "analysis",
     "feeding_norm"}

\* a string field of a record is absent, or a string that is not blank and
\* has no whitespace around it
TrimmedOrAbsent(value) ==
    \/ value.type = "NoneType"
    \/ /\ value.type = "str"
       /\ \E k \in 1..Len(value.v) : ~IsSpace(value.v[k])
       /\ ~IsSpace(value.v[1]) /\ ~IsSpace(value.v[Len(value.v)])

\* the list-valued fields stay lists and the price record keeps its strings
ListsAndPriceKept(r) ==
    /\ \A f \in {"images", "weight", "reviews"} : r[f].type = "list"
    /\ r.price.type = "dict"
    /\ \A g \in {"old_price", "current_price", "discount"} : r.price.v[g] # None

Assembled == product.done /\ product.ret.type = "dict"

\* C5 as claimed: in a record returned by parse_product, name, manufacturer,
\* category, description, composition, analysis, feeding_norm and url are
\* each absent or a non-blank string without surrounding whitespace; lists
\* and the fields of the price record are not normalised.
C5_StringFieldsTrimmed ==
    Assembled =>
        /\ \A f \in StringFields \cup {"url"} : TrimmedOrAbsent(product.ret.v[f])
        /\ ListsAndPriceKept(product.ret.v)

\* C5 as amended: the same of the seven extracted string fields; url is the
\* string handed to parse_product, kept as it is, whitespace at its end
\* included.
C5_ExtractedFieldsTrimmed ==
    Assembled =>
        /\ \A f \in StringFields : TrimmedOrAbsent(product.ret.v[f])
        /\ product.ret.v.url = Str(url_in)
        /\ ListsAndPriceKept(product.ret.v)

\* a record with an absent name, a trimmed description, an empty image list,
\* an empty current price and a url that ends in a space
C5_Witness ==
    /\ Assembled
    /\ product.ret.v.name = NoneV
    /\ product.ret.v.description = Str(<<"e">>)
    /\ product.ret.v.images = List(<<>>)
    /\ product.ret.v.price.v.current_price = <<>>
    /\ product.ret.v.url.v[Len(product.ret.v.url.v)] = SP

\* C6: whenever the page has a pricing block, with or without an old-price
\* element in it, current_price is the block's text with the old price (when
\* there is one) and the currency symbol removed, trimmed; the old price
\* "2000 R" in the block "2000 R1500 R" gives old_price "2000 R" and
\* current_price "1500".
C6_CurrentPriceFromBlock ==
    call.fn = "_get_price" =>
        LET block == first(select_class(soup, 0, "packing-price-item"))
            old == first(select_class(soup, block, "price-del"))
            old_text == IF old # 0 THEN strip(text(soup, old)) ELSE <<>>
            block_text == strip(text(soup, block))
        IN  block # 0 =>
              /\ call.ret.current_price
                    = strip(remove(remove(block_text, old_text), <<RUB>>))
              /\ (old_text = <<"2", "0", "0", "0", SP, RUB>>
                    /\ text(soup, block)
                         = <<"2", "0", "0", "0", SP, RUB, "1", "5", "0", "0", SP, RUB>>)
                 => /\ call.ret.old_price = <<"2", "0", "0", "0", SP, RUB>>
                    /\ call.ret.current_price = <<"1", "5", "0", "0">>

\* C7: _get_name returns the title's trimmed text up to the dash (the whole
\* title when it has no dash) whenever the page has a title, the first
\* heading's trimmed text only when it has none, and the empty string only
\* when it has neither.
C7_NameFromTitle ==
    call.fn = "_get_name" =>
        LET title == first(select_tags(soup, 0, {"title"}))
            h1 == first(select_tags(soup, 0, {"h1"}))
        IN  call.ret = IF title # 0
                       THEN strip(split(strip(text(soup, title)), <<DASH>>)[1])
                       ELSE IF h1 # 0 THEN strip(text(soup, h1))
                       ELSE <<>>

\* what an extractor returns on the document as it was parsed
OnParsed(fn, tab) ==
    CASE fn = "_get_name" -> _get_name(orig)
      [] fn = "_get_manufacturer" -> _get_manufacturer(orig)
      [] fn = "_get_price" -> _get_price(orig)
      [] fn = "_get_category" -> _get_category(orig)
      [] fn = "_get_images" -> _get_images(orig)
      [] fn = "_get_weight" -> _get_weight(orig)
      [] fn = "_get_tab_content" -> _get_tab_content(orig, tab)
      [] fn = "_get_reviews" -> _get_reviews(orig)

\* C9: no extractor call changes the document, so what an extractor returns
\* does not depend on the extractors called before it.
C9_ExtractorsPure ==
    /\ soup = orig
    /\ call.fn # "" => call.ret = OnParsed(call.fn, call.tab)

====
